---- MODULE Spec2Model ----
(***************************************************************************)
(* TaskTimer (src/tasktimer.py): the Timer stop watch with its running     *)
(* (Welford) statistics, and the TaskTimer built on it: task switching,    *)
(* the iterate()/range() generators, status() and summary().               *)
(*                                                                         *)
(* Numbers.  Python floats are modelled as exact rationals, so a property  *)
(* that the source states "within floating tolerance" is checked exactly.  *)
(* A value is a record [k, n, d]:                                          *)
(*    k = "num"   the rational n/d in lowest terms, d > 0                  *)
(*    k = "sqrt"  math.sqrt of the rational n/d (kept symbolic)            *)
(*    k = "nan"   float('nan')                                             *)
(*    any other k the name of the Python exception the expression raised   *)
(* The clock t.time() is the variable now, read in whole ticks; one tick   *)
(* stands for half a second, so that the laps 1.5 s, 1.0 s, 2.0 s of the   *)
(* test are 3, 2 and 4 ticks.                                              *)
(***************************************************************************)
EXTENDS Integers, Sequences, FiniteSets

\* ---------------------------------------------------------------- bounds
\* the Timer on its own (TimerSpec)
MaxTime  == 9      \* the clock is read in 0..MaxTime
MaxLaps  == 3      \* the Timer records at most MaxLaps laps
\* the task registry (Spec)
MaxTags  == 2      \* task tags are 1..MaxTags (standing for strings, in order)
MaxTaskLaps == 2   \* an accumulator records at most MaxTaskLaps laps
MaxClock == 3      \* the clock is read in 0..MaxClock
\* the loop (IterSpec)
MaxItems == 2      \* iterate() is given at most MaxItems elements, and
                   \* range() a start and a stop in -MaxOffset..MaxItems
MaxOffset == 1     \* iterate() is given an offset in 0..MaxOffset
MaxLoopLaps == 1   \* an accumulator records at most MaxLoopLaps laps
MaxLoopTime == 2   \* the clock is read in 0..MaxLoopTime

\* --------------------------------------------------------------- numbers
Abs(x) == IF x < 0 THEN -x ELSE x

RECURSIVE GCD(_, _)
GCD(a, b) == IF b = 0 THEN a ELSE GCD(b, a % b)

Lowest(n, d, g) == [k |-> "num", n |-> n \div g, d |-> d \div g]

\* the rational n/d (d # 0) in lowest terms with a positive denominator
Num(n, d) ==
  IF d < 0 THEN Lowest(-n, -d, GCD(Abs(n), Abs(d)))
  ELSE Lowest(n, d, GCD(Abs(n), Abs(d)))

I(n)   == [k |-> "num", n |-> n, d |-> 1]
NaN    == [k |-> "nan", n |-> 0, d |-> 1]
Exc(e) == [k |-> e, n |-> 0, d |-> 1]

IsNum(v)    == v.k = "num"
IsNaN(v)    == v.k = "nan"
IsRaised(v) == v.k \notin {"num", "sqrt", "nan"}

\* float arithmetic: an exception propagates, then nan does
RAdd(a, b) ==
  IF IsRaised(a) THEN a ELSE IF IsRaised(b) THEN b
  ELSE IF IsNaN(a) \/ IsNaN(b) THEN NaN
  ELSE Num(a.n * b.d + b.n * a.d, a.d * b.d)

RSub(a, b) ==
  IF IsRaised(a) THEN a ELSE IF IsRaised(b) THEN b
  ELSE IF IsNaN(a) \/ IsNaN(b) THEN NaN
  ELSE Num(a.n * b.d - b.n * a.d, a.d * b.d)

RMul(a, b) ==
  IF IsRaised(a) THEN a ELSE IF IsRaised(b) THEN b
  ELSE IF IsNaN(a) \/ IsNaN(b) THEN NaN
  ELSE Num(a.n * b.n, a.d * b.d)

\* Python's true division: a zero divisor raises, it does not give nan
PyDiv(a, b) ==
  IF IsRaised(a) THEN a ELSE IF IsRaised(b) THEN b
  ELSE IF IsNum(b) /\ b.n = 0 THEN Exc("ZeroDivisionError")
  ELSE IF IsNaN(a) \/ IsNaN(b) THEN NaN
  ELSE Num(a.n * b.d, a.d * b.n)

\* math.sqrt: nan stays nan, a negative argument raises ValueError,
\* sqrt(-0.0) is -0.0 (the rational 0)
Sqrt(v) ==
  IF IsRaised(v) THEN v
  ELSE IF IsNaN(v) THEN NaN
  ELSE IF v.n < 0 THEN Exc("ValueError")
  ELSE IF v.n = 0 THEN I(0)
  ELSE [k |-> "sqrt", n |-> v.n, d |-> v.d]

RLess(a, b) == a.n * b.d < b.n * a.d

\* ------------------------------------------------------------ class Timer
Unset == -1          \* the attribute _start does not exist yet
Statistics == {"population", "sample"}

\* a reset() that forgets the running sum of squares
Timer_resetBug(tm) ==
  [tm EXCEPT !.last = I(0), !.total = I(0), !.mean = I(0), !.laps = 0]

Timer_reset(tm) ==
  [tm EXCEPT !.last = I(0), !.total = I(0), !.mean = I(0),
             !.sum_sq_diff = I(0), !.laps = 0]

\* Timer.__init__ with a valid 'statistics': reset(), then the choice of the
\* pair behind stdev()/variance().  _start is not assigned by it.  The field
\* open is history: start() called and stop() not called since.
Timer__init__(statistics) ==
  Timer_reset([last |-> I(0), total |-> I(0), mean |-> I(0),
               sum_sq_diff |-> I(0), laps |-> 0, _start |-> Unset,
               statistics |-> statistics, open |-> FALSE])

\* the call Timer(statistics=...): [exc, self]; the else branch of
\* __init__ raises TypeError and the caller gets no instance
Timer_new(statistics) ==
  IF statistics \in Statistics
  THEN [exc |-> "none", self |-> Timer__init__(statistics)]
  ELSE [exc |-> "TypeError", self |-> Timer__init__("population")]

\* a start() that times the lap from clock reading 0
Timer_startBug(tm, time) == [tm EXCEPT !._start = 0, !.open = TRUE]

Timer_start(tm, time) == [tm EXCEPT !._start = time, !.open = TRUE]

\* the last line of the Welford step, with delta1 * delta1
WelfordSumBug(ssd, elapsed, delta1, mean) ==
  [mean |-> mean, sum_sq_diff |-> RAdd(ssd, RMul(delta1, delta1))]

\* delta2 = elapsed - mean; sum_sq_diff += delta1*delta2 (mean is the new
\* mean)
WelfordSum(ssd, elapsed, delta1, mean) ==
  [mean |-> mean, sum_sq_diff |-> RAdd(ssd, RMul(delta1, RSub(elapsed, mean)))]

\* mean += delta1/laps
WelfordMean(mean, ssd, elapsed, laps, delta1) ==
  WelfordSum(ssd, elapsed, delta1, RAdd(mean, PyDiv(delta1, I(laps))))

\* one Welford step of stop(): the new running mean and sum of squares
Welford(mean, ssd, elapsed, laps) ==
  WelfordMean(mean, ssd, elapsed, laps, RSub(elapsed, mean))

\* a stop() that stores the lap as the total
StopStoreBug(tm, new_time, elapsed, w) ==
  [self |-> [tm EXCEPT !._start = new_time, !.laps = @ + 1,
                       !.last = elapsed,
                       !.total = elapsed,
                       !.mean = w.mean,
                       !.sum_sq_diff = w.sum_sq_diff,
                       !.open = FALSE],
   exc |-> "none"]

\* a stop() that does not begin the next lap
StopStoreOnce(tm, new_time, elapsed, w) ==
  [self |-> [tm EXCEPT !.laps = @ + 1,
                       !.last = elapsed,
                       !.total = RAdd(@, elapsed),
                       !.mean = w.mean,
                       !.sum_sq_diff = w.sum_sq_diff,
                       !.open = FALSE],
   exc |-> "none"]

\* stop(), the assignments: elapsed is the lap, w the Welford step
StopStore(tm, new_time, elapsed, w) ==
  [self |-> [tm EXCEPT !._start = new_time, !.laps = @ + 1,
                       !.last = elapsed,
                       !.total = RAdd(@, elapsed),
                       !.mean = w.mean,
                       !.sum_sq_diff = w.sum_sq_diff,
                       !.open = FALSE],
   exc |-> "none"]

\* stop() at clock reading new_time: [self, exc].  Reading self._start
\* before any start() raises AttributeError and changes nothing.
Timer_stop(tm, new_time) ==
  IF tm._start = Unset THEN [self |-> tm, exc |-> "AttributeError"]
  ELSE StopStore(tm, new_time, I(new_time - tm._start),
                 Welford(tm.mean, tm.sum_sq_diff, I(new_time - tm._start),
                         tm.laps + 1))

population_variance(tm) == PyDiv(tm.sum_sq_diff, I(tm.laps))

sample_variance(tm) ==
  IF tm.laps = 1 THEN NaN ELSE PyDiv(tm.sum_sq_diff, I(tm.laps - 1))

\* self.variance, as bound by __init__
variance(tm) ==
  IF tm.statistics = "population" THEN population_variance(tm)
  ELSE sample_variance(tm)

\* population_stdev() takes the root of self.variance()
population_stdev(tm) == Sqrt(variance(tm))

sample_stdev(tm) == Sqrt(sample_variance(tm))

\* self.stdev, as bound by __init__
stdev(tm) ==
  IF tm.statistics = "population" THEN population_stdev(tm)
  ELSE sample_stdev(tm)

\* every read of a Timer: the five fields and the four accessors
Reads(tm) ==
  [last |-> tm.last, total |-> tm.total, mean |-> tm.mean,
   sum_sq_diff |-> tm.sum_sq_diff, laps |-> tm.laps,
   population_variance |-> population_variance(tm),
   population_stdev |-> population_stdev(tm),
   sample_variance |-> sample_variance(tm),
   sample_stdev |-> sample_stdev(tm)]

\* -------------------------------------------------------- class TaskTimer
None  == -99         \* Python's None (outside every range the model draws from)
Modes == {"simple", "compact", "quiet"}
Tags  == 1..MaxTags

Max(a, b) == IF a >= b THEN a ELSE b

\* self.timers, an OrderedDict: the sequence of its items [k, v] in
\* insertion order
HasTag(ts, tag) == \E i \in 1..Len(ts) : ts[i].k = tag
Idx(ts, tag)    == CHOOSE i \in 1..Len(ts) : ts[i].k = tag

\* TaskTimer.__init__ with a valid mode.  self.offset is not assigned by it;
\* it is read only by status() under in_progress, which iterate() sets
\* after assigning offset, so the 0 here is never read.
TaskTimer__init__(mode) ==
  [mode |-> mode, master |-> Timer__init__("population"), timers |-> <<>>,
   current |-> None, laps |-> 0, offset |-> 0, in_progress |-> FALSE]

\* the call TaskTimer(mode): [exc, self].  The mode is checked by an assert
\* statement, which is compiled only when __debug__ is true (it is false
\* under python -O or PYTHONOPTIMIZE); then it raises AssertionError.
TaskTimer_new(mode, debug) ==
  IF debug /\ mode \notin Modes
  THEN [exc |-> "AssertionError", self |-> TaskTimer__init__("compact")]
  ELSE [exc |-> "none", self |-> TaskTimer__init__(mode)]

\* what status() hands to print: the format arguments of the status line
\* (kind "step"), or self.current (kind "current")
NoOut ==
  [kind |-> "none", step |-> 0, of |-> 0, progress |-> I(0), eta |-> I(0),
   total_time |-> I(0), current |-> None, newline |-> FALSE,
   printed |-> FALSE]

\* status(), the line: [exc, out]
StatusLine(self, newline, total_time, progress) ==
  IF IsRaised(progress) THEN [exc |-> progress.k, out |-> NoOut]
  ELSE [exc |-> "none",
        out |-> [kind |-> "step", step |-> self.master.laps + self.offset,
                 of |-> self.laps + self.offset,
                 progress |-> progress,
                 eta |-> RSub(total_time, self.master.total),
                 total_time |-> total_time, current |-> self.current,
                 newline |-> newline,
                 printed |-> self.mode # "quiet"]]

\* a status() that projects the total from the first lap only
statusBug(self, newline) ==
  IF self.in_progress THEN
    StatusLine(self, newline,
               RMul(I(self.laps), self.master.total),
               PyDiv(RMul(I(100), I(self.master.laps + self.offset)),
                     I(self.laps + self.offset)))
  ELSE [exc |-> "none",
        out |-> [NoOut EXCEPT !.kind = "current", !.current = self.current,
                              !.printed = TRUE]]

\* status(newline): [exc, out].  The line is computed in every mode and
\* printed in 'compact' and 'simple'.
status(self, newline) ==
  IF self.in_progress THEN
    StatusLine(self, newline,
               RMul(PyDiv(I(self.laps), I(Max(self.master.laps, 1))),
                    self.master.total),
               PyDiv(RMul(I(100), I(self.master.laps + self.offset)),
                     I(self.laps + self.offset)))
  ELSE [exc |-> "none",
        out |-> [NoOut EXCEPT !.kind = "current", !.current = self.current,
                              !.printed = TRUE]]

\* task(): a switch that leaves the outgoing accumulator running
StopCurrentBug(self, time) == [self |-> self, exc |-> "none"]

\* the accumulator at position i replaced by the outcome r of its stop()
StopAt(self, i, r) ==
  [self |-> [self EXCEPT !.timers[i].v = r.self], exc |-> r.exc]

\* task(), first part: stop the accumulator of the current tag, if any
StopCurrent(self, time) ==
  IF self.current # None
  THEN StopAt(self, Idx(self.timers, self.current),
              Timer_stop(self.timers[Idx(self.timers, self.current)].v, time))
  ELSE [self |-> self, exc |-> "none"]

\* the accumulator of tag started in the items ts
StartIn(self, ts, tag, time) ==
  [self EXCEPT !.timers = [ts EXCEPT ![Idx(ts, tag)].v = Timer_start(@, time)]]

\* a task() that puts a new tag first in the registry
StartTagBug(self, tag, time) ==
  IF tag = None THEN self
  ELSE IF HasTag(self.timers, tag) THEN StartIn(self, self.timers, tag, time)
  ELSE StartIn(self, <<[k |-> tag, v |-> Timer__init__("population")]>>
                       \o self.timers,
               tag, time)

\* task(), second part: create the accumulator of tag if absent, start it
StartTag(self, tag, time) ==
  IF tag = None THEN self
  ELSE IF HasTag(self.timers, tag) THEN StartIn(self, self.timers, tag, time)
  ELSE StartIn(self, Append(self.timers,
                            [k |-> tag, v |-> Timer__init__("population")]),
               tag, time)

\* task(), last part: in 'compact' mode, status()
TaskStatus(self, st) == [self |-> self, exc |-> st.exc, out |-> st.out]

TaskShow(self) ==
  IF self.mode = "compact" THEN TaskStatus(self, status(self, FALSE))
  ELSE [self |-> self, exc |-> "none", out |-> NoOut]

\* task(), after the stop a = [self, exc] of the outgoing accumulator
TaskSwitch(a, tag, time) ==
  IF a.exc # "none" THEN [self |-> a.self, exc |-> a.exc, out |-> NoOut]
  ELSE TaskShow([StartTag(a.self, tag, time) EXCEPT !.current = tag])

\* task(tag), the clock read at t1 by stop() and at t2 by start():
\* [self, exc, out]
TaskTimer_task(self, tag, t1, t2) == TaskSwitch(StopCurrent(self, t1), tag, t2)

\* ------------------------------------------------ iterate() and range()
\* range(start, stop) of Python: start, start+1, ..., stop-1
RangeSeq(start, stop) == [k \in 1..Max(stop - start, 0) |-> start + k - 1]

\* The generator object iterate() returns.  Calling iterate() runs none of
\* its body; each next() runs it to the next yield.  pc is where it stands:
\* "created", "yielded" (suspended at the yield), "done" (returned) or
\* "failed" (an exception left it).  i counts the elements yielded.  call,
\* yielded, shown and final are history: the call that made it, the values
\* it yielded, the (step, of) of each status line its own status() calls
\* computed, and whether its final status(True) was rendered.
NoGen ==
  [pc |-> "none", call |-> [fn |-> "none", a |-> None, b |-> None],
   iterable |-> <<>>, iterations |-> None, offset |-> 0, i |-> 0,
   yielded |-> <<>>, shown |-> <<>>, final |-> FALSE]

TaskTimer_iterate(iterable, iterations, offset) ==
  [NoGen EXCEPT !.pc = "created",
                !.call = [fn |-> "iterate", a |-> iterations, b |-> offset],
                !.iterable = iterable, !.iterations = iterations,
                !.offset = offset]

TaskTimer_range(start, stop) ==
  LET stop2  == IF stop = None THEN start ELSE stop
      start2 == IF stop = None THEN 0 ELSE start
  IN  [TaskTimer_iterate(RangeSeq(start2, stop2), None, start2)
         EXCEPT !.call = [fn |-> "range", a |-> start, b |-> stop]]

\* an iterate() that starts the master accumulator without resetting it
IterateEnterBug(g, self, time) ==
  [self EXCEPT
     !.laps = IF g.iterations = None THEN Len(g.iterable) ELSE g.iterations,
     !.offset = g.offset,
     !.in_progress = TRUE,
     !.master = Timer_start(@, time)]

\* iterate(), up to the loop: laps, offset, in_progress, master reset and
\* started
IterateEnter(g, self, time) ==
  [self EXCEPT
     !.laps = IF g.iterations = None THEN Len(g.iterable) ELSE g.iterations,
     !.offset = g.offset,
     !.in_progress = TRUE,
     !.master = Timer_start(Timer_reset(@), time)]

\* an iterate() that drops the lap of the master accumulator
ResumeStopBug(a, r) == [self |-> a.self, exc |-> r.exc, out |-> a.out]

\* iterate(), master.stop() with outcome r after task(None) gave a
ResumeStop(a, r) ==
  [self |-> [a.self EXCEPT !.master = r.self], exc |-> r.exc, out |-> a.out]

ResumeTask(a, time) ==
  IF a.exc # "none" THEN a
  ELSE ResumeStop(a, Timer_stop(a.self.master, time))

\* an iterate() that leaves the loop body's task open
IterateResumeBug(g, self, time) ==
  ResumeStop([self |-> self, exc |-> "none", out |-> NoOut],
             Timer_stop(self.master, time))

\* iterate(), after the yield: task(None), then master.stop(): [self, exc, out]
IterateResume(g, self, time) ==
  ResumeTask(TaskTimer_task(self, None, time, time), time)

\* the generator after its status() call st: the line it computed is kept
Shown(g, st) ==
  IF st.out.kind = "step"
  THEN [g EXCEPT !.shown = Append(@, [step |-> st.out.step,
                                      of |-> st.out.of])]
  ELSE g

\* iterate(), the head of the loop after its status() call st (status(True)
\* when no element is left): yield the next element, or set
\* in_progress = False and return: [gen, self, exc, out]
LoopStep(g, r, st) ==
  IF st.exc # "none"
  THEN [gen |-> [g EXCEPT !.pc = "failed"], self |-> r.self,
        exc |-> st.exc, out |-> r.out]
  ELSE IF g.i < Len(g.iterable)
  THEN [gen |-> [Shown(g, st) EXCEPT !.pc = "yielded", !.i = @ + 1,
                                     !.yielded = Append(@, g.iterable[g.i + 1])],
        self |-> r.self, exc |-> "none", out |-> st.out]
  ELSE [gen |-> [Shown(g, st) EXCEPT !.pc = "done", !.final = TRUE],
        self |-> [r.self EXCEPT !.in_progress = FALSE],
        exc |-> "none", out |-> st.out]

\* iterate(), the head of the loop, entered with state r = [self, exc, out]
IterateLoop(g, r) ==
  IF r.exc # "none"
  THEN [gen |-> [g EXCEPT !.pc = "failed"], self |-> r.self, exc |-> r.exc,
        out |-> r.out]
  ELSE LoopStep(g, r, status(r.self, ~(g.i < Len(g.iterable))))

\* next() on the generator g: [gen, self, exc, out]
TaskTimer_iterate_next(g, self, time) ==
  IterateLoop(g, IF g.pc = "created"
                 THEN [self |-> IterateEnter(g, self, time), exc |-> "none",
                       out |-> NoOut]
                 ELSE IterateResume(g, self, time))

\* ------------------------------------------------------------- summary()
\* the key of a row for list.sort: column sortcol as a number (a tag stands
\* for its string, in order)
RowKey(row, sortcol) ==
  CASE sortcol = 0 -> I(row.tag)
    [] sortcol = 1 -> I(row.laps)
    [] sortcol = 2 -> row.mean
    [] sortcol = 3 -> row.stdev
    [] sortcol = 4 -> row.total
    [] OTHER       -> row.fraction

\* a < b on floats (a root compares as its radicand; nan compares False)
KeyLess(a, b) == IF IsNaN(a) \/ IsNaN(b) THEN FALSE ELSE RLess(a, b)

\* row r goes before row e in the sorted table
Before(r, e, sortcol, sortrev) ==
  IF sortrev THEN KeyLess(RowKey(e, sortcol), RowKey(r, sortcol))
  ELSE KeyLess(RowKey(r, sortcol), RowKey(e, sortcol))

\* list.sort(key, reverse): stable in both directions
RECURSIVE Insert(_, _, _, _)
Insert(sorted, r, sortcol, sortrev) ==
  IF sorted = <<>> THEN <<r>>
  ELSE IF Before(r, Head(sorted), sortcol, sortrev) THEN <<r>> \o sorted
  ELSE <<Head(sorted)>> \o Insert(Tail(sorted), r, sortcol, sortrev)

RECURSIVE SortRows(_, _, _)
SortRows(rows, sortcol, sortrev) ==
  IF rows = <<>> THEN <<>>
  ELSE Insert(SortRows(SubSeq(rows, 1, Len(rows) - 1), sortcol, sortrev),
              rows[Len(rows)], sortcol, sortrev)

\* "{:.0f}".format(x) for x >= 0: the nearest integer, ties to even
Round0(x) ==
  LET q == x.n \div x.d
      r == x.n - q * x.d
  IN  IF 2 * r < x.d THEN q
      ELSE IF 2 * r > x.d THEN q + 1
      ELSE IF q % 2 = 0 THEN q ELSE q + 1

RECURSIVE SumTotals(_)
SumTotals(ts) ==
  IF ts = <<>> THEN I(0) ELSE RAdd(Head(ts).v.total, SumTotals(Tail(ts)))

\* one row of the table, as built in the first loop of summary()
SummaryRow(item, total_time) ==
  [tag |-> item.k, laps |-> item.v.laps, mean |-> item.v.mean,
   stdev |-> stdev(item.v), total |-> item.v.total,
   fraction |-> PyDiv(RMul(I(100), item.v.total), total_time)]

\* the exception the row raises while it is built, or "none"
RowExc(row) ==
  IF IsRaised(row.fraction) THEN row.fraction.k
  ELSE IF IsRaised(row.stdev) THEN row.stdev.k
  ELSE "none"

\* the second loop of summary(): the percentage formatted
FormatRows(table) ==
  [i \in 1..Len(table) |->
     [tag |-> table[i].tag, laps |-> table[i].laps, mean |-> table[i].mean,
      stdev |-> table[i].stdev, total |-> table[i].total,
      fraction |-> table[i].fraction, pct |-> Round0(table[i].fraction)]]

\* the rows that raise while they are built
Raising(raw) == {i \in 1..Len(raw) : RowExc(raw[i]) # "none"}

\* summary() from the rows raw of its first loop: the first row that
\* raises ends the call
SummaryOf(raw, total_time, sortcol, sortrev) ==
  IF Raising(raw) # {}
  THEN [exc |-> RowExc(raw[CHOOSE i \in Raising(raw) :
                             \A j \in Raising(raw) : i <= j]),
        rows |-> <<>>, total |-> I(0)]
  ELSE [exc |-> "none",
        rows |-> FormatRows(IF sortcol # None
                            THEN SortRows(raw, sortcol, sortrev) ELSE raw),
        total |-> total_time]

RawRows(ts, total_time) ==
  [i \in 1..Len(ts) |-> SummaryRow(ts[i], total_time)]

\* summary(sortcol, sortrev): [exc, rows, total].  rows are the task rows
\* handed to format_table, in table order, each with its percentage before
\* ("fraction") and after ("pct") the "{:.0f}" formatting; total is the
\* time of the Total row.  format_time and format_table belong to the
\* package frmt and are not modelled: the time columns are kept as numbers.
SummaryWith(self, total_time, sortcol, sortrev) ==
  SummaryOf(RawRows(self.timers, total_time), total_time, sortcol, sortrev)

TaskTimer_summary(self, sortcol, sortrev) ==
  SummaryWith(self, SumTotals(self.timers), sortcol, sortrev)

\* ------------------------------------------------------------------ state
VARIABLES
  now,        \* the clock: what t.time() returns
  op,         \* the operation performed last
  exc,        \* the exception it raised, or "none"
  timer,      \* a Timer used on its own
  durs,       \* history: the durations of its laps since construction/reset
  lapStart,   \* history: the clock reading at which its current lap began
  before,     \* history: the Timer as it was when the last operation began
  mark,       \* history: the latest of the construction of the Timer
              \* ("new"), its reset() ("reset") and its start() on no laps
              \* ("start"), with the clock reading at; "none" after
              \* another start()
  tasktimer,  \* a TaskTimer
  gen,        \* the generator of its latest iterate()/range() call
  inner,      \* the generator of an iterate()/range() call made on the same
              \* TaskTimer in the body of the loop that gen drives
  ret,        \* what summary() returned, when it is the operation performed last
  busy,       \* history: the clock time that has passed while some tag was
              \* current
  arg,        \* the argument of the operation performed last, when it is a
              \* constructor call, else "none"
  debug       \* __debug__: false when the interpreter runs with -O

tmvars == <<timer, durs, lapStart, before, mark>>
ttvars == <<tasktimer, gen, inner, ret, busy>>
vars   == <<now, op, exc, timer, durs, lapStart, before, mark,
            tasktimer, gen, inner, ret, busy, arg, debug>>

\* ret is the outcome of the last summary() call, with its arguments
NoRet == [exc |-> "none", rows |-> <<>>, total |-> I(0),
          sortcol |-> None, sortrev |-> FALSE]

\* ----------------------------------------------- a Timer used on its own
TimerInit ==
  /\ now = 0
  /\ op = "init"
  /\ exc = "none"
  /\ \E s \in Statistics : timer = Timer__init__(s)
  /\ durs = <<>>
  /\ lapStart = Unset
  /\ before = timer
  /\ mark = [kind |-> "new", at |-> 0]
  /\ tasktimer = TaskTimer__init__("quiet")
  /\ gen = NoGen
  /\ inner = NoGen
  /\ ret = NoRet
  /\ busy = 0
  /\ arg = "none"
  /\ debug = TRUE

Tick ==
  /\ now < MaxTime
  /\ now' = now + 1
  /\ UNCHANGED <<op, exc, tmvars, ttvars, arg, debug>>

TimerStart ==
  /\ timer' = Timer_start(timer, now)
  /\ lapStart' = now
  /\ mark' = IF timer.laps = 0 THEN [kind |-> "start", at |-> now]
             ELSE [kind |-> "none", at |-> Unset]
  /\ before' = timer
  /\ op' = "start"
  /\ exc' = "none"
  /\ arg' = "none"
  /\ UNCHANGED <<debug, now, durs, ttvars>>

\* the outcome r of stop() stored, and the lap added to the history
Stopped(r) ==
  /\ timer' = r.self
  /\ exc' = r.exc
  /\ IF r.exc = "none"
     THEN durs' = Append(durs, now - lapStart) /\ lapStart' = now
     ELSE UNCHANGED <<durs, lapStart>>

TimerStop ==
  /\ timer.laps < MaxLaps
  /\ Stopped(Timer_stop(timer, now))
  /\ before' = timer
  /\ op' = "stop"
  /\ arg' = "none"
  /\ UNCHANGED <<debug, now, mark, ttvars>>

TimerReset ==
  /\ timer' = Timer_reset(timer)
  /\ mark' = [kind |-> "reset", at |-> now]
  /\ durs' = <<>>
  /\ before' = timer
  /\ op' = "reset"
  /\ exc' = "none"
  /\ arg' = "none"
  /\ UNCHANGED <<debug, now, lapStart, ttvars>>

\* timer = Timer(statistics=...): when the constructor raises, the name
\* keeps the Timer it was bound to
Constructed(r) ==
  /\ exc' = r.exc
  /\ IF r.exc = "none"
     THEN /\ timer' = r.self /\ durs' = <<>> /\ lapStart' = Unset
          /\ mark' = [kind |-> "new", at |-> now]
     ELSE UNCHANGED <<timer, durs, lapStart, mark>>

TimerNew(statistics) ==
  /\ Constructed(Timer_new(statistics))
  /\ before' = timer
  /\ op' = "Timer"
  /\ arg' = statistics
  /\ UNCHANGED <<now, ttvars, debug>>

\* tasktimer = TaskTimer(mode)
Built(r) ==
  /\ exc' = r.exc
  /\ tasktimer' = IF r.exc = "none" THEN r.self ELSE tasktimer

TaskTimerNew(mode) ==
  /\ Built(TaskTimer_new(mode, debug))
  /\ op' = "TaskTimer"
  /\ arg' = mode
  /\ busy' = 0
  /\ UNCHANGED <<now, tmvars, gen, inner, ret, debug>>

TimerNext == Tick \/ TimerStart \/ TimerStop \/ TimerReset

TimerSpec == TimerInit /\ [][TimerNext]_vars

\* ------------------------------------------------------- the constructors
\* a Timer and a TaskTimer exist; the interpreter runs with or without -O
NewInit ==
  /\ now = 0
  /\ op = "init"
  /\ exc = "none"
  /\ \E s \in Statistics : timer = Timer__init__(s)
  /\ durs = <<>>
  /\ lapStart = Unset
  /\ before = timer
  /\ mark = [kind |-> "new", at |-> 0]
  /\ \E m \in Modes : tasktimer = TaskTimer__init__(m)
  /\ gen = NoGen
  /\ inner = NoGen
  /\ ret = NoRet
  /\ busy = 0
  /\ arg = "none"
  /\ debug \in BOOLEAN

\* the names timer and tasktimer are bound again and again, to instances
\* made with valid and invalid options, and the Timer is used in between
\* (at a clock that stands still)
NewNext ==
  \/ TimerStart \/ TimerStop \/ TimerReset
  \/ \E statistics \in Statistics \cup {"other"} : TimerNew(statistics)
  \/ \E mode \in Modes \cup {"other"} : TaskTimerNew(mode)

NewSpec == NewInit /\ [][NewNext]_vars

\* ------------------------------------------------------------ a TaskTimer
Init ==
  /\ now = 0
  /\ op = "init"
  /\ exc = "none"
  /\ timer = Timer__init__("population")
  /\ durs = <<>>
  /\ lapStart = Unset
  /\ before = timer
  /\ mark = [kind |-> "new", at |-> 0]
  /\ \E m \in Modes : tasktimer = TaskTimer__init__(m)
  /\ gen = NoGen
  /\ inner = NoGen
  /\ ret = NoRet
  /\ busy = 0
  /\ arg = "none"
  /\ debug = TRUE

\* the accumulator of tag has room for another lap (a bound of the model)
Room(tag, max) ==
  IF tag = None THEN TRUE
  ELSE IF ~HasTag(tasktimer.timers, tag) THEN TRUE
  ELSE tasktimer.timers[Idx(tasktimer.timers, tag)].v.laps < max

\* time passes, up to the clock reading max
Pass(max) ==
  /\ now < max
  /\ now' = now + 1
  /\ op' = "pass"
  /\ exc' = "none"
  /\ ret' = NoRet
  /\ arg' = "none"
  /\ busy' = IF tasktimer.current = None THEN busy ELSE busy + 1
  /\ UNCHANGED <<debug, tmvars, tasktimer, gen, inner>>

\* the outcome r of a call stored
Called(r) == tasktimer' = r.self /\ exc' = r.exc

\* task(tag); both clock reads of the call return now
Task(tag, max) ==
  /\ Room(tasktimer.current, max)
  /\ Called(TaskTimer_task(tasktimer, tag, now, now))
  /\ op' = "task"
  /\ ret' = NoRet
  /\ arg' = "none"
  /\ UNCHANGED <<debug, now, tmvars, gen, inner, busy>>

Returned(r, sortcol, sortrev) ==
  /\ ret' = [exc |-> r.exc, rows |-> r.rows, total |-> r.total,
             sortcol |-> sortcol, sortrev |-> sortrev]
  /\ exc' = r.exc

\* a summary() that ends the current task
SummaryBug(sortcol, sortrev) ==
  /\ Returned(TaskTimer_summary(tasktimer, sortcol, sortrev), sortcol, sortrev)
  /\ op' = "summary"
  /\ tasktimer' = [tasktimer EXCEPT !.current = None]
  /\ arg' = "none"
  /\ UNCHANGED <<debug, now, tmvars, gen, inner, busy>>

Summary(sortcol, sortrev) ==
  /\ Returned(TaskTimer_summary(tasktimer, sortcol, sortrev), sortcol, sortrev)
  /\ op' = "summary"
  /\ arg' = "none"
  /\ UNCHANGED <<debug, now, tmvars, tasktimer, gen, inner, busy>>

\* the task registry: task switches and summaries, outside any iteration
Next ==
  \/ Pass(MaxClock)
  \/ \E tag \in Tags \cup {None} : Task(tag, MaxTaskLaps)
  \/ \E sortcol \in (0..5) \cup {None}, sortrev \in BOOLEAN :
       Summary(sortcol, sortrev)

Spec == Init /\ [][Next]_vars

\* ------------------------------------------- a TaskTimer driving a loop
\* The TaskTimer as an earlier run leaves it: list(iterate([0])) consumed
\* at clock reading 0.
AgainAt(r, time) == TaskTimer_iterate_next(r.gen, r.self, time)

AfterRun(mode) ==
  AgainAt(TaskTimer_iterate_next(TaskTimer_iterate(<<0>>, None, 0),
                                 TaskTimer__init__(mode), 0), 0).self

\* a TaskTimer just constructed, or one that has driven a loop before
IterInit ==
  /\ now = 0
  /\ op = "init"
  /\ exc = "none"
  /\ timer = Timer__init__("population")
  /\ durs = <<>>
  /\ lapStart = Unset
  /\ before = timer
  /\ mark = [kind |-> "new", at |-> 0]
  /\ \E m \in Modes :
       tasktimer \in {TaskTimer__init__(m), AfterRun(m)}
  /\ gen = NoGen
  /\ inner = NoGen
  /\ ret = NoRet
  /\ busy = 0
  /\ arg = "none"
  /\ debug = TRUE

\* iterate()/range() has not been called yet: this specification follows
\* one run
Idle == gen.pc = "none"

Iterate(iterable, iterations, offset) ==
  /\ Idle
  /\ gen' = TaskTimer_iterate(iterable, iterations, offset)
  /\ op' = "iterate"
  /\ exc' = "none"
  /\ ret' = NoRet
  /\ arg' = "none"
  /\ UNCHANGED <<debug, now, tmvars, tasktimer, inner, busy>>

Range(start, stop) ==
  /\ Idle
  /\ gen' = TaskTimer_range(start, stop)
  /\ op' = "range"
  /\ exc' = "none"
  /\ ret' = NoRet
  /\ arg' = "none"
  /\ UNCHANGED <<debug, now, tmvars, tasktimer, inner, busy>>

\* the outcome r of next() stored
Resumed(r) == gen' = r.gen /\ tasktimer' = r.self /\ exc' = r.exc

\* next() on the generator; every clock read of the step returns now
GenNext ==
  /\ gen.pc \in {"created", "yielded"}
  /\ Room(tasktimer.current, MaxLoopLaps)
  /\ Resumed(TaskTimer_iterate_next(gen, tasktimer, now))
  /\ op' = "next"
  /\ ret' = NoRet
  /\ arg' = "none"
  /\ UNCHANGED <<debug, now, tmvars, inner, busy>>

\* the tags used around and inside the loop
LoopTags == {1}

IterNext ==
  \/ Pass(MaxLoopTime)
  \/ \E tag \in LoopTags \cup {None} : Task(tag, MaxLoopLaps)
  \/ \E n \in 0..MaxItems, iterations \in (0..MaxItems) \cup {None},
        offset \in 0..MaxOffset :
       Iterate(RangeSeq(0, n), iterations, offset)
  \/ \E start \in (-MaxOffset)..MaxItems,
        stop \in ((-MaxOffset)..MaxItems) \cup {None} :
       Range(start, stop)
  \/ GenNext

IterSpec == IterInit /\ [][IterNext]_vars

\* ------------------------------------- a loop whose body drives a loop
NestInit ==
  /\ now = 0
  /\ op = "init"
  /\ exc = "none"
  /\ timer = Timer__init__("population")
  /\ durs = <<>>
  /\ lapStart = Unset
  /\ before = timer
  /\ mark = [kind |-> "new", at |-> 0]
  /\ \E m \in Modes : tasktimer = TaskTimer__init__(m)
  /\ gen = NoGen
  /\ inner = NoGen
  /\ ret = NoRet
  /\ busy = 0
  /\ arg = "none"
  /\ debug = TRUE

\* status(), called by the loop body
Status ==
  /\ exc' = status(tasktimer, FALSE).exc
  /\ op' = "status"
  /\ ret' = NoRet
  /\ arg' = "none"
  /\ UNCHANGED <<debug, now, tmvars, tasktimer, gen, inner, busy>>

\* the iterate()/range() calls the loop body makes
NestedCalls ==
  {TaskTimer_iterate(RangeSeq(0, n), None, 0) : n \in 0..MaxItems}
    \cup {TaskTimer_range(start, MaxItems) : start \in 0..MaxOffset}

\* the loop body calls iterate()/range() on the TaskTimer that drives it
Nest(g) ==
  /\ gen.pc = "yielded"
  /\ inner.pc = "none"
  /\ inner' = g
  /\ op' = "nest"
  /\ exc' = "none"
  /\ ret' = NoRet
  /\ arg' = "none"
  /\ UNCHANGED <<debug, now, tmvars, tasktimer, gen, busy>>

\* the outcome r of next() on the nested generator stored
ResumedInner(r) == inner' = r.gen /\ tasktimer' = r.self /\ exc' = r.exc

\* next() on the nested generator
InnerNext ==
  /\ inner.pc \in {"created", "yielded"}
  /\ Room(tasktimer.current, MaxLoopLaps)
  /\ ResumedInner(TaskTimer_iterate_next(inner, tasktimer, now))
  /\ op' = "inner"
  /\ ret' = NoRet
  /\ arg' = "none"
  /\ UNCHANGED <<debug, now, tmvars, gen, busy>>

NestNext ==
  \/ Pass(MaxLoopTime)
  \/ \E tag \in LoopTags \cup {None} : Task(tag, MaxLoopLaps)
  \/ Status
  \/ Summary(None, FALSE)
  \/ \E n \in 0..MaxItems, offset \in 0..MaxOffset :
       Iterate(RangeSeq(0, n), None, offset)
  \/ GenNext
  \/ \E g \in NestedCalls : Nest(g)
  \/ InnerNext

NestSpec == NestInit /\ [][NestNext]_vars

\* ------------------------------------------------- claims about the Timer
RECURSIVE SumSeq(_)
SumSeq(s) == IF s = <<>> THEN 0 ELSE Head(s) + SumSeq(Tail(s))

\* the sum over i of (s[i] - m)^2, computed from the durations themselves
RECURSIVE SumSqDev(_, _)
SumSqDev(s, m) ==
  IF s = <<>> THEN I(0)
  ELSE LET dev == RSub(I(Head(s)), m)
       IN  RAdd(RMul(dev, dev), SumSqDev(Tail(s), m))

\* C1: after the n-th stop (n laps of durations durs[1..n]) laps is n and
\* total is their sum; for n >= 1, last is the n-th duration and mean is
\* total/n.
C1_LapsTotalLastMean ==
  LET n == Len(durs)
  IN  /\ timer.laps = n
      /\ timer.total = I(SumSeq(durs))
      /\ n >= 1 => /\ timer.last = I(durs[n])
                   /\ timer.mean = Num(SumSeq(durs), n)

\* the laps of the test, 1.5 s, 1.0 s and 2.0 s, in start()/stop() pairs
C1_Witness ==
  /\ op = "stop"
  /\ durs = <<3, 2, 4>>
  /\ timer.total = I(9) /\ timer.mean = I(3) /\ timer.laps = 3

\* C2: after n >= 1 laps the running sum_sq_diff is the sum of the squared
\* deviations of the durations from the final mean, and
\* population_variance() is that sum over n.
C2_WelfordIsDirectSum ==
  LET n == Len(durs)
      direct == SumSqDev(durs, Num(SumSeq(durs), IF n = 0 THEN 1 ELSE n))
  IN  n >= 1 => /\ timer.sum_sq_diff = direct
                /\ population_variance(timer) = PyDiv(direct, I(n))

\* three unequal laps: sum_sq_diff 0.5 s^2 (2 in ticks^2), variance 0.5/3
C2_Witness ==
  /\ durs = <<3, 2, 4>>
  /\ timer.sum_sq_diff = I(2)
  /\ population_variance(timer) = Num(2, 3)

\* C3: sample_variance() is nan for 0 or 1 laps, and for n >= 2 laps it is
\* population_variance() * n/(n-1).
C3_SampleVariance ==
  LET n == timer.laps
  IN  /\ n \in {0, 1} => IsNaN(sample_variance(timer))
      /\ n >= 2 => sample_variance(timer)
                     = RMul(population_variance(timer), Num(n, n - 1))

\* C4: with no lap recorded, the four variance/stdev accessors return nan.
C4_NaNAtZeroLaps ==
  timer.laps = 0 =>
    /\ IsNaN(population_variance(timer))
    /\ IsNaN(population_stdev(timer))
    /\ IsNaN(sample_variance(timer))
    /\ IsNaN(sample_stdev(timer))

\* C5: right after reset(), every read of the Timer gives what it gives on
\* a Timer just constructed (with the same 'statistics').
C5_ResetIsFresh ==
  op = "reset" => Reads(timer) = Reads(Timer__init__(timer.statistics))

\* a reset of a Timer that had recorded three unequal laps
C5_Witness ==
  /\ op = "reset"
  /\ before.laps = 3
  /\ before.sum_sq_diff # I(0)
  /\ timer.laps = 0

\* C19: after a start() at t0 of a Timer without laps and n >= 1 stop()
\* calls at t1 .. tn with no start() (nor reset()) in between, laps is n
\* and total is tn - t0; right after the n-th stop(), last is
\* tn - t(n-1): every stop() begins the next lap at its own instant.
C19_StopIsLapKey ==
  (mark.kind = "start" /\ Len(durs) >= 1) =>
    /\ exc = "none"
    /\ timer.laps = Len(durs)
    /\ timer.total = I(lapStart - mark.at)
    /\ op = "stop" => timer.last = I(durs[Len(durs)])

\* one start() and three stop() calls: laps of 1, 2 and 4 ticks
C19_Witness ==
  /\ op = "stop"
  /\ mark.kind = "start"
  /\ durs = <<1, 2, 4>>
  /\ lapStart - mark.at = 7
  /\ timer.last = I(4) /\ timer.total = I(7) /\ timer.laps = 3

\* C20: a stop() on a Timer on which start() has not been called since it
\* was constructed or reset raises nothing, and the first of them records
\* one lap of the time since the construction or the reset().
C20_StopWithoutStart ==
  (op = "stop" /\ mark.kind \in {"new", "reset"}) =>
    /\ exc = "none"
    /\ timer.laps = 1 => timer.last = I(lapStart - mark.at)

\* C14: variance()/stdev() are the population pair under 'population' and
\* the sample pair under 'sample'; under either setting, with 2 laps or
\* more, population_stdev() is the square root of population_variance()
\* and sample_stdev() the square root of sample_variance().
C14_StatisticsSelectsPair ==
  /\ timer.statistics = "population" =>
       /\ variance(timer) = population_variance(timer)
       /\ stdev(timer) = population_stdev(timer)
  /\ timer.statistics = "sample" =>
       /\ variance(timer) = sample_variance(timer)
       /\ stdev(timer) = sample_stdev(timer)
  /\ timer.laps >= 2 =>
       /\ population_stdev(timer) = Sqrt(population_variance(timer))
       /\ sample_stdev(timer) = Sqrt(sample_variance(timer))

\* --------------------------------------------- claims about the TaskTimer
\* the tags whose accumulators have been started and not stopped since
OpenTags ==
  {tasktimer.timers[i].k :
     i \in {j \in 1..Len(tasktimer.timers) : tasktimer.timers[j].v.open}}

\* C6: after any sequence of task() calls the accumulators started and not
\* stopped since are exactly the one of the current tag, and none when
\* current is None.
C6_OneOpenAccumulator ==
  OpenTags = IF tasktimer.current = None THEN {} ELSE {tasktimer.current}

\* a switch from tag 1, which recorded a lap, to tag 2
C6_Witness ==
  /\ op = "task"
  /\ tasktimer.current = 2
  /\ HasTag(tasktimer.timers, 1)
  /\ tasktimer.timers[Idx(tasktimer.timers, 1)].v.laps >= 1
  /\ OpenTags = {2}

\* the start and stop of the range() call that made the generator
CallStart == IF gen.call.b = None THEN 0 ELSE gen.call.a
CallStop  == IF gen.call.b = None THEN gen.call.a ELSE gen.call.b

\* C7: a run of range(start, stop) with start <= stop does not fail; it
\* yields start, start+1, ... in order, up to stop-1 when it is done; the
\* status computed before the k-th element (from 0) is step start+k of
\* stop, and the final one is stop of stop.
C7_RangeStepsFromStart ==
  (gen.call.fn = "range" /\ CallStart <= CallStop) =>
    /\ gen.pc # "failed"
    /\ gen.yielded = SubSeq(RangeSeq(CallStart, CallStop), 1, gen.i)
    /\ \A k \in 1..Len(gen.shown) :
         gen.shown[k] = [step |-> CallStart + k - 1, of |-> CallStop]
    /\ gen.pc = "yielded" => Len(gen.shown) = gen.i
    /\ gen.pc = "done" => /\ gen.i = CallStop - CallStart
                          /\ Len(gen.shown) = gen.i + 1

\* C8: a generator of iterate()/range() that is consumed to its end ends
\* by returning, not by an exception, after a final status render, and
\* leaves in_progress false.
C8_ExhaustionCompletes ==
  /\ gen.pc # "failed"
  /\ gen.pc = "done" => gen.final /\ ~tasktimer.in_progress

\* C9: in every state of a run of iterate(), master.laps <= laps.
C9_MasterLapsBounded ==
  gen.pc # "none" => tasktimer.master.laps <= tasktimer.laps

\* C9 as amended: once the body of iterate() has run (from the first
\* next() on), and 'iterations' is None or at least the number of
\* elements, master.laps <= laps.
C9_MasterLapsBoundedGivenLength ==
  (/\ gen.pc \in {"yielded", "done", "failed"}
   /\ (gen.iterations = None \/ gen.iterations >= Len(gen.iterable))) =>
    tasktimer.master.laps <= tasktimer.laps

\* a run given 'iterations' explicitly, consumed to its end, on a TaskTimer
\* whose master accumulator had recorded a lap in an earlier run
C9_Witness ==
  /\ gen.pc = "done"
  /\ gen.iterations = 2 /\ Len(gen.iterable) = 2
  /\ tasktimer.master.laps = 2 /\ tasktimer.laps = 2

RECURSIVE SumFractions(_)
SumFractions(rows) ==
  IF rows = <<>> THEN I(0)
  ELSE RAdd(Head(rows).fraction, SumFractions(Tail(rows)))

\* C10: when the task totals sum to more than 0, summary() returns a table
\* whose percentages, before rounding, are 100*total/grand total for each
\* task and sum to 100.
C10_PercentagesSumTo100 ==
  (op = "summary" /\ RLess(I(0), SumTotals(tasktimer.timers))) =>
    /\ ret.exc = "none"
    /\ Len(ret.rows) = Len(tasktimer.timers)
    /\ \A i \in 1..Len(ret.rows) :
         ret.rows[i].fraction
           = Num(100 * ret.rows[i].total.n * ret.total.d,
                 ret.rows[i].total.d * ret.total.n)
    /\ SumFractions(ret.rows) = I(100)

\* C11: when a task is registered and the task totals sum to 0, summary()
\* returns a table, one row per task, whose percentages are all the
\* undefined marker (not a number); it raises nothing.
C11_ZeroTotalUndefinedPercent ==
  (/\ op = "summary"
   /\ Len(tasktimer.timers) >= 1
   /\ SumTotals(tasktimer.timers) = I(0)) =>
    /\ ret.exc = "none"
    /\ Len(ret.rows) = Len(tasktimer.timers)
    /\ \A i \in 1..Len(ret.rows) : IsNaN(ret.rows[i].fraction)

Keys(ts) == [i \in 1..Len(ts) |-> ts[i].k]

\* the accumulator of a registered tag
Acc(ts, tag) == ts[Idx(ts, tag)].v

\* the effect of task(tag) on the tag c that was current, from the
\* registry ts to ts2 at clock reading time: one lap more, of the time
\* since it was started, and it is running again only if tag is c
OutgoingLap(ts, ts2, c, tag, time) ==
  /\ Acc(ts2, c).laps = Acc(ts, c).laps + 1
  /\ Acc(ts2, c).last = I(time - Acc(ts, c)._start)
  /\ Acc(ts2, c).total = RAdd(Acc(ts, c).total, I(time - Acc(ts, c)._start))
  /\ Acc(ts2, c).open = (tag = c)

\* the effect of task(tag), for the tag c that was current
TaskEffect(self, self2, c, tag, time) ==
  /\ c # None => OutgoingLap(self.timers, self2.timers, c, tag, time)
  /\ \A i \in 1..Len(self.timers) :
       self.timers[i].k # c =>
         /\ self2.timers[i].v.laps = self.timers[i].v.laps
         /\ self2.timers[i].v.total = self.timers[i].v.total
         /\ self2.timers[i].v.mean = self.timers[i].v.mean
         /\ self2.timers[i].v.sum_sq_diff = self.timers[i].v.sum_sq_diff
         /\ self.timers[i].k # tag => self2.timers[i].v = self.timers[i].v
  /\ Keys(self2.timers)
       = IF tag = None \/ HasTag(self.timers, tag) THEN Keys(self.timers)
         ELSE Append(Keys(self.timers), tag)
  /\ tag # None =>
       /\ Acc(self2.timers, tag).open
       /\ Acc(self2.timers, tag)._start = time
       /\ ~HasTag(self.timers, tag) => Acc(self2.timers, tag).laps = 0
  /\ self2.master = self.master
  /\ self2.laps = self.laps /\ self2.in_progress = self.in_progress

\* C16: a task(tag) call stops the accumulator of the current tag, if any,
\* which gains one lap (also when tag is the current tag: it is then
\* started again); no other accumulator's statistics change; a tag not yet
\* registered is appended last, and none when tag is None; the accumulator
\* of tag is started; and current becomes tag.
C16_TaskSwitchEffect ==
  [][op' = "task" =>
       /\ exc' = "none"
       /\ TaskEffect(tasktimer, tasktimer', tasktimer.current,
                     tasktimer'.current, now)]_vars

\* tag 1 has closed two laps and runs again, tag 2 was registered after it
\* and has closed one
C16_Witness ==
  /\ op = "task"
  /\ tasktimer.current = 1
  /\ Keys(tasktimer.timers) = <<1, 2>>
  /\ Acc(tasktimer.timers, 1).laps = 2 /\ Acc(tasktimer.timers, 1).open
  /\ Acc(tasktimer.timers, 2).laps = 1 /\ ~Acc(tasktimer.timers, 2).open
  /\ RLess(I(0), Acc(tasktimer.timers, 1).total)

\* C21: right after a task() call, the totals of the task accumulators sum
\* to the clock time that has passed while some tag was current: a switch
\* loses no time and counts none twice, and the time that passes while
\* current is None goes to no task.
C21_TotalsAreBusyTime ==
  op = "task" => SumTotals(tasktimer.timers) = I(busy)

\* two tasks of one tick each, and one tick spent outside every task
C21_Witness ==
  /\ op = "task"
  /\ tasktimer.current = None
  /\ Keys(tasktimer.timers) = <<1, 2>>
  /\ Acc(tasktimer.timers, 1).total = I(1)
  /\ Acc(tasktimer.timers, 2).total = I(1)
  /\ busy = 2 /\ now = 3

\* ------------------------------------------- claims about the constructors
\* C13: a constructor call with a value outside the valid ones raises and
\* binds no instance; with a valid value it raises nothing and gives the
\* instance configured with that value.  Hence no Timer or TaskTimer in
\* use has an invalid option.
C13_InvalidOptionFailsConstruction ==
  /\ timer.statistics \in Statistics
  /\ tasktimer.mode \in Modes
  /\ op = "Timer" =>
       /\ exc = "none" <=> arg \in Statistics
       /\ IF exc = "none" THEN timer = Timer__init__(arg) ELSE timer = before
  /\ op = "TaskTimer" =>
       /\ exc = "none" <=> arg \in Modes
       /\ exc = "none" => tasktimer = TaskTimer__init__(arg)

\* ------------------------------------------------ claims about iterate()
\* the first next(): the master accumulator has been reset and started
\* when the first element is yielded
FirstYield(self2, g2, time) ==
  g2.pc = "yielded" =>
    /\ self2.master.laps = 0 /\ self2.master.total = I(0)
    /\ self2.master.open /\ self2.master._start = time
    /\ self2.in_progress

\* a later next(): the task c the loop body left open (if any) is closed
\* with one lap more, and the master accumulator gets one lap, of the time
\* since the element was yielded
StepLap(self, self2, c, time) ==
  /\ c # None =>
       /\ Acc(self2.timers, c).laps = Acc(self.timers, c).laps + 1
       /\ ~Acc(self2.timers, c).open
  /\ self2.current = None
  /\ \A i \in 1..Len(self2.timers) : ~self2.timers[i].v.open
  /\ self2.master.laps = self.master.laps + 1
  /\ self2.master.total
       = RAdd(self.master.total, I(time - self.master._start))

\* C17: in a run of iterate(), the master accumulator is reset and started
\* before the first element is yielded; while element k (from 0) is with
\* the loop body, master.laps is k, and current is None when an element
\* k >= 1 is handed over; every later next() first closes the task the
\* body left open and then closes one master lap, so that the master has
\* one lap per consumed element.
C17_OneMasterLapPerElement ==
  /\ [](/\ gen.pc = "yielded" =>
             /\ tasktimer.master.laps = gen.i - 1
             /\ (op = "next" /\ gen.i >= 2) => tasktimer.current = None
        /\ gen.pc = "done" => tasktimer.master.laps = Len(gen.iterable))
  /\ [][op' = "next" =>
         /\ gen.pc = "created" => FirstYield(tasktimer', gen', now)
         /\ gen.pc = "yielded" =>
              /\ exc' = "none"
              /\ StepLap(tasktimer, tasktimer', tasktimer.current, now)]_vars

\* the second element is handed over: the first step took time, and the
\* task its body had left open was closed with it
C17_Witness ==
  /\ op = "next" /\ gen.pc = "yielded" /\ gen.i = 2
  /\ tasktimer.master.laps = 1 /\ RLess(I(0), tasktimer.master.total)
  /\ HasTag(tasktimer.timers, 1)
  /\ Acc(tasktimer.timers, 1).laps = 1
  /\ Acc(tasktimer.timers, 1).total = tasktimer.master.total
  /\ tasktimer.current = None

\* ------------------------------------------------ claims about status()
\* the line [exc, out] is computed, with 0% progress and a not-a-number ETA
ZeroAndUnknown(st) ==
  st.exc = "none" /\ st.out.progress = I(0) /\ IsNaN(st.out.eta)

\* C15: during an iteration whose master accumulator has no lap yet,
\* status() reports 0% progress and a not-a-number ETA.
C15_LapZeroUnknownETA ==
  (/\ gen.pc = "yielded"
   /\ tasktimer.in_progress
   /\ tasktimer.master.laps = 0) =>
    ZeroAndUnknown(status(tasktimer, FALSE))

\* the line st of status() for lap laps of N: the projected total is
\* (N/lap) * master.total and the ETA is what remains of it, which is
\* master.mean * (N - lap), and is not negative when lap <= N
Projected(st, master, lap, N) ==
  /\ st.exc = "none"
  /\ st.out.total_time = RMul(Num(N, lap), master.total)
  /\ st.out.eta = RSub(st.out.total_time, master.total)
  /\ st.out.eta = RMul(master.mean, I(N - lap))
  /\ lap <= N => ~RLess(st.out.eta, I(0))

\* the final line st of a run: nothing remains
Complete(st) ==
  st.exc = "none" /\ st.out.eta = I(0) /\ st.out.progress = I(100)

\* C18: with master.laps = lap >= 1 and N steps, status() computes the
\* projected total (N/lap) * master.total and the ETA projected total -
\* master.total = master.mean * (N - lap), not negative when lap <= N; the
\* final status() of a run with lap = N (the TaskTimer as it is in that
\* call, in_progress still set) reports ETA 0 and 100%.
C18_ETAIsMeanTimesRemaining ==
  /\ (tasktimer.in_progress /\ tasktimer.master.laps >= 1) =>
       Projected(status(tasktimer, FALSE), tasktimer.master,
                 tasktimer.master.laps, tasktimer.laps)
  /\ (/\ gen.pc = "done"
      /\ tasktimer.master.laps >= 1
      /\ tasktimer.master.laps = tasktimer.laps) =>
       Complete(status([tasktimer EXCEPT !.in_progress = TRUE], TRUE))

\* the first of two steps took two ticks: two more are expected
C18_Witness ==
  /\ gen.pc = "yielded"
  /\ tasktimer.in_progress
  /\ tasktimer.master.laps = 1 /\ tasktimer.laps = 2
  /\ tasktimer.master.total = I(2)
  /\ status(tasktimer, FALSE).out.eta = I(2)
  /\ status(tasktimer, FALSE).out.total_time = I(4)

\* the step count iterate() stores for the generator g
StepsOf(g) == IF g.iterations = None THEN Len(g.iterable) ELSE g.iterations

\* the TaskTimer holds the state of the run of g, which has yielded g.i
\* elements
HoldsRun(self, g) ==
  /\ self.in_progress
  /\ self.laps = StepsOf(g)
  /\ self.offset = g.offset
  /\ self.master.laps = g.i - 1

\* C22: while a run of iterate()/range() has yielded an element and is
\* not exhausted, in_progress is true and the step count, the offset and
\* the master lap count are those of that run, whatever the loop body
\* calls, a nested iterate()/range() run on the same TaskTimer included.
C22_RunStateKept ==
  gen.pc = "yielded" => HoldsRun(tasktimer, gen)

\* C22 as amended: the same, whatever task(), status() and summary() calls
\* the loop body makes, as long as it advances no other iterate()/range()
\* generator of the same TaskTimer.
C22_RunStateKeptWithoutNesting ==
  (gen.pc = "yielded" /\ inner.pc \in {"none", "created"}) =>
    HoldsRun(tasktimer, gen)

\* the body of the second step has called range() without consuming it,
\* opened a task and asked for the summary
C22_Witness ==
  /\ gen.pc = "yielded" /\ gen.i = 2
  /\ inner.pc = "created"
  /\ op = "summary"
  /\ tasktimer.current = 1
  /\ Acc(tasktimer.timers, 1).laps = 1
  /\ HoldsRun(tasktimer, gen)

====
